---- MODULE Spec2Model ----
(***************************************************************************)
(* Model of the knowledge base of src/minesweeper.py: the Sentence class,  *)
(* MinesweeperAI.add_knowledge with its repeat-until-no-change loop, and   *)
(* the two move selectors make_safe_move and make_random_move.  The board  *)
(* (class Minesweeper) supplies the true neighbour counts.                 *)
(***************************************************************************)
EXTENDS Integers, Sequences, FiniteSets, TLC

\* Largest grid of the model: every height and width whose grid has at most
\* MaxCells cells is explored, with every mine placement.
MaxCells == 6

\* Largest cell set of a sentence examined on its own.
MaxSentenceCells == 3

VARIABLES
    height,      \* MinesweeperAI.height (= Minesweeper.height)
    width,       \* MinesweeperAI.width  (= Minesweeper.width)
    board,       \* Minesweeper.mines: the cells that really hold a mine
    moves_made,  \* MinesweeperAI.moves_made
    mines,       \* MinesweeperAI.mines
    safes,       \* MinesweeperAI.safes
    knowledge,   \* MinesweeperAI.knowledge: sequence of [cells, count]
    loop_stop,   \* local flag of add_knowledge's while loop
    index1,      \* outer position of the subset-resolution loops, 0 outside
    index2,      \* inner position of the subset-resolution loops, 0 outside
    pc,          \* position inside add_knowledge, "idle" between calls
    op,          \* the last operation that was invoked
    arg,         \* the cell argument of that operation, None if it has none
    ret          \* the value that operation returned, None if it has none

vars == <<height, width, board, moves_made, mines, safes, knowledge,
          loop_stop, index1, index2, pc, op, arg, ret>>

\* Python's None, the "none available" result of the selectors.
None == <<>>

\* The coordinates inside the bounds of an h x w grid.
GridCells(h, w) == {<<row, col>> : row \in 0..(h - 1), col \in 0..(w - 1)}

AllCells == GridCells(height, width)

\* range(cell[0]-1, cell[0]+2) x range(cell[1]-1, cell[1]+2), the cell
\* itself excluded, restricted to the grid.
Neighbors(cell) ==
    {<<row, col>> : row \in (cell[1] - 1)..(cell[1] + 1),
                    col \in (cell[2] - 1)..(cell[2] + 1)}
      \cap {c \in AllCells : c # cell}

\* Minesweeper.nearby_mines
nearby_mines(cell) == Cardinality({c \in Neighbors(cell) : c \in board})

\* Minesweeper.is_mine
is_mine(cell) == cell \in board

(***************************************************************************)
(* class Sentence                                                          *)
(***************************************************************************)
Sentence(cells, count) == [cells |-> cells, count |-> count]

\* Variant: a sentence with at most one cell more than its count is taken
\* to be all mines.
known_mines_off_by_one(s) ==
    IF Cardinality(s.cells) <= s.count + 1 THEN s.cells ELSE {}

known_mines(s) == IF Cardinality(s.cells) = s.count THEN s.cells ELSE {}

known_safes(s) == IF s.count = 0 THEN s.cells ELSE {}

\* Variant: removing a mine increments the count.
SentenceMarkMineIncrement(s, cell) ==
    IF cell \in s.cells
      THEN [cells |-> s.cells \ {cell}, count |-> s.count + 1]
      ELSE s

SentenceMarkMine(s, cell) ==
    IF cell \in s.cells
      THEN [cells |-> s.cells \ {cell}, count |-> s.count - 1]
      ELSE s

\* Variant: removing a safe cell decrements the count, as mark_mine does.
SentenceMarkSafeDecrement(s, cell) ==
    IF cell \in s.cells
      THEN [cells |-> s.cells \ {cell}, count |-> s.count - 1]
      ELSE s

SentenceMarkSafe(s, cell) ==
    IF cell \in s.cells
      THEN [cells |-> s.cells \ {cell}, count |-> s.count]
      ELSE s

(***************************************************************************)
(* class MinesweeperAI.  The operators below work on a record st holding   *)
(* the fields the inference loop reads and writes.                         *)
(***************************************************************************)
AIState == [mines |-> mines, safes |-> safes, knowledge |-> knowledge,
            loop_stop |-> loop_stop]

\* Variant: the cell is recorded in mines but the sentences are not told.
mark_mine_no_fanout(st, cell) == [st EXCEPT !.mines = @ \cup {cell}]

\* MinesweeperAI.mark_mine: add to mines, fan out to every sentence.
mark_mine(st, cell) ==
    [st EXCEPT !.mines = @ \cup {cell},
               !.knowledge = [i \in DOMAIN @ |-> SentenceMarkMine(@[i], cell)]]

\* Variant: the fan-out happens but the cell is not recorded in safes.
mark_safe_fanout_only(st, cell) ==
    [st EXCEPT !.knowledge = [i \in DOMAIN @ |-> SentenceMarkSafe(@[i], cell)]]

\* MinesweeperAI.mark_safe: add to safes, fan out to every sentence.
mark_safe(st, cell) ==
    [st EXCEPT !.safes = @ \cup {cell},
               !.knowledge = [i \in DOMAIN @ |-> SentenceMarkSafe(@[i], cell)]]

\* Sentence.__eq__ used by "sentence_based not in self.knowledge".
InKnowledge(s, kn) ==
    \E i \in DOMAIN kn : kn[i].cells = s.cells /\ kn[i].count = s.count

\* Statement construction of add_knowledge: the unknown neighbours.
cells_set(cell, moved, sf, mn) ==
    {c \in Neighbors(cell) : c \notin moved /\ c \notin sf /\ c \notin mn}

\* Variant: known mines among the neighbours are not subtracted.
adjusted_count_raw(cell, count, moved, sf, mn) == count

\* Statement construction of add_knowledge: the elif branch subtracts one for
\* every neighbour that failed the first test and is a known mine.
adjusted_count(cell, count, moved, sf, mn) ==
    count - Cardinality({c \in Neighbors(cell) :
                            /\ ~(c \notin moved /\ c \notin sf /\ c \notin mn)
                            /\ c \in mn})

\* The unconditional append of the probe's sentence.
AppendProbe(kn, s) == Append(kn, s)

\* "for safe_cell in safe_cells.copy()": mark each cell not yet in safes.
RECURSIVE MarkSafeCells(_, _)
MarkSafeCells(st, cells) ==
    IF cells = {} THEN st
    ELSE LET safe_cell == CHOOSE c \in cells : TRUE
             next == IF safe_cell \notin st.safes
                       THEN [mark_safe(st, safe_cell) EXCEPT !.loop_stop = TRUE]
                       ELSE st
         IN  MarkSafeCells(next, cells \ {safe_cell})

\* "for mine_cell in mine_cells.copy()": mark each cell not yet in mines.
RECURSIVE MarkMineCells(_, _)
MarkMineCells(st, cells) ==
    IF cells = {} THEN st
    ELSE LET mine_cell == CHOOSE c \in cells : TRUE
             next == IF mine_cell \notin st.mines
                       THEN [mark_mine(st, mine_cell) EXCEPT !.loop_stop = TRUE]
                       ELSE st
         IN  MarkMineCells(next, cells \ {mine_cell})

\* Variant: only the known safes of a sentence are concluded.
DirectSentenceSafesOnly(st, i) ==
    MarkSafeCells(st, known_safes(st.knowledge[i]))

\* One iteration of the direct-conclusion loop, on the sentence at index i:
\* known_mines() is evaluated after the safe cells were marked.
DirectSentence(st, i) ==
    LET afterSafes == MarkSafeCells(st, known_safes(st.knowledge[i]))
    IN  MarkMineCells(afterSafes, known_mines(afterSafes.knowledge[i]))

\* The direct-conclusion pass over knowledge.copy().
RECURSIVE DirectFrom(_, _)
DirectFrom(st, i) ==
    IF i > Len(st.knowledge) THEN st
    ELSE DirectFrom(DirectSentence(st, i), i + 1)

DirectRound(st) == DirectFrom(st, 1)

\* Variant: an appended sentence does not request another round.
SubsetPairNoFlag(st, i1, i2) ==
    LET sentence1 == st.knowledge[i1]
        sentence2 == st.knowledge[i2]
        sentence_based == Sentence(sentence2.cells \ sentence1.cells,
                                   sentence2.count - sentence1.count)
    IN  IF /\ i1 # i2
           /\ sentence1.cells \subseteq sentence2.cells
           /\ sentence_based.cells # {}
           /\ ~InKnowledge(sentence_based, st.knowledge)
          THEN [st EXCEPT !.knowledge = Append(@, sentence_based)]
          ELSE st

\* Variant: another round is requested for every derivable sentence, also
\* when it is already in the knowledge base.
SubsetPairAlwaysFlag(st, i1, i2) ==
    LET sentence1 == st.knowledge[i1]
        sentence2 == st.knowledge[i2]
        sentence_based == Sentence(sentence2.cells \ sentence1.cells,
                                   sentence2.count - sentence1.count)
    IN  IF /\ i1 # i2
           /\ sentence1.cells \subseteq sentence2.cells
           /\ sentence_based.cells # {}
          THEN [st EXCEPT !.knowledge =
                              IF InKnowledge(sentence_based, @)
                                THEN @ ELSE Append(@, sentence_based),
                          !.loop_stop = TRUE]
          ELSE st

\* Variant: only pairs with the first sentence before the second one are
\* resolved.
SubsetPairForwardOnly(st, i1, i2) ==
    LET sentence1 == st.knowledge[i1]
        sentence2 == st.knowledge[i2]
        sentence_based == Sentence(sentence2.cells \ sentence1.cells,
                                   sentence2.count - sentence1.count)
    IN  IF /\ i1 < i2
           /\ sentence1.cells \subseteq sentence2.cells
           /\ sentence_based.cells # {}
           /\ ~InKnowledge(sentence_based, st.knowledge)
          THEN [st EXCEPT !.knowledge = Append(@, sentence_based),
                          !.loop_stop = TRUE]
          ELSE st

\* Variant: the derived sentence is appended without looking for an equal
\* one in the knowledge base.
SubsetPairNoDedup(st, i1, i2) ==
    LET sentence1 == st.knowledge[i1]
        sentence2 == st.knowledge[i2]
        sentence_based == Sentence(sentence2.cells \ sentence1.cells,
                                   sentence2.count - sentence1.count)
    IN  IF /\ i1 # i2
           /\ sentence1.cells \subseteq sentence2.cells
           /\ sentence_based.cells # {}
          THEN [st EXCEPT !.knowledge = Append(@, sentence_based),
                          !.loop_stop = TRUE]
          ELSE st

\* Body of the inner loop of the subset-resolution pass for the pair
\* (index1, index2) = (i1, i2).
SubsetPair(st, i1, i2) ==
    LET sentence1 == st.knowledge[i1]
        sentence2 == st.knowledge[i2]
        cells_based == sentence2.cells \ sentence1.cells
        count_based == sentence2.count - sentence1.count
        sentence_based == Sentence(cells_based, count_based)
    IN  IF i1 = i2 THEN st
        ELSE IF ~(sentence1.cells \subseteq sentence2.cells) THEN st
        ELSE IF Cardinality(cells_based) = 0 THEN st
        ELSE IF InKnowledge(sentence_based, st.knowledge) THEN st
        ELSE [st EXCEPT !.knowledge = Append(@, sentence_based),
                        !.loop_stop = TRUE]

\* The two nested enumerate loops, run from the position (i1, i2) up to and
\* including the next pair whose body changes something, or to the end of
\* the outer loop.  Both loops see the sentences appended while they run, as
\* a Python list iterator does.
RECURSIVE SubsetScan(_, _, _)
SubsetScan(st, i1, i2) ==
    IF i1 > Len(st.knowledge)
      THEN [st |-> st, index1 |-> i1, index2 |-> i2, done |-> TRUE]
    ELSE IF i2 > Len(st.knowledge) THEN SubsetScan(st, i1 + 1, 1)
    ELSE IF SubsetPair(st, i1, i2) = st THEN SubsetScan(st, i1, i2 + 1)
    ELSE [st |-> SubsetPair(st, i1, i2), index1 |-> i1, index2 |-> i2 + 1,
          done |-> FALSE]

\* The subset-resolution pass from the position (i1, i2) to its end.
RECURSIVE SubsetFrom(_, _, _)
SubsetFrom(st, i1, i2) ==
    IF SubsetScan(st, i1, i2).done THEN SubsetScan(st, i1, i2).st
    ELSE SubsetFrom(SubsetScan(st, i1, i2).st, SubsetScan(st, i1, i2).index1,
                    SubsetScan(st, i1, i2).index2)

SubsetRound(st) == SubsetFrom(st, 1, 1)

\* Variant: the moves_made test is missing.
SafeMoveResultsAny(sf, moved) == IF sf # {} THEN sf ELSE {None}

\* make_safe_move: the cells a pass over self.safes can return first.
SafeMoveResults(sf, moved) ==
    IF \E cell \in sf : cell \notin moved
      THEN {cell \in sf : cell \notin moved}
      ELSE {None}

\* make_random_move: "for row in range(self.width): for col in
\* range(self.height)".
possible_random_cells(h, w, moved, mn) ==
    {<<row, col>> \in {<<r, c>> : r \in 0..(w - 1), c \in 0..(h - 1)} :
        <<row, col>> \notin moved /\ <<row, col>> \notin mn}

RandomMoveResults(h, w, moved, mn) ==
    IF Cardinality(possible_random_cells(h, w, moved, mn)) = 0
      THEN {None}
      ELSE possible_random_cells(h, w, moved, mn)

(***************************************************************************)
(* Initial state and actions                                               *)
(***************************************************************************)
Init ==
    /\ height \in 1..MaxCells
    /\ width \in 1..MaxCells
    /\ height * width <= MaxCells
    /\ board \in SUBSET GridCells(height, width)
    /\ moves_made = {}
    /\ mines = {}
    /\ safes = {}
    /\ knowledge = <<>>
    /\ loop_stop = FALSE
    /\ index1 = 0
    /\ index2 = 0
    /\ pc = "idle"
    /\ op = "init"
    /\ arg = None
    /\ ret = None

\* add_knowledge(cell, count) up to the append of the probe's sentence.  The
\* driver probes a cell that was not probed before and is not a mine, and
\* reports the board's count.
Observe(cell) ==
    /\ pc = "idle"
    /\ cell \in AllCells
    /\ cell \notin moves_made
    /\ ~is_mine(cell)
    /\ LET count == nearby_mines(cell)
           moved == moves_made \cup {cell}
           st == mark_safe(AIState, cell)
           new_sentence == Sentence(cells_set(cell, moved, st.safes, st.mines),
                                    adjusted_count(cell, count, moved,
                                                   st.safes, st.mines))
       IN  /\ moves_made' = moved
           /\ safes' = st.safes
           /\ mines' = st.mines
           /\ knowledge' = AppendProbe(st.knowledge, new_sentence)
    /\ loop_stop' = FALSE
    /\ pc' = "direct"
    /\ op' = "observe"
    /\ arg' = cell
    /\ ret' = None
    /\ UNCHANGED <<height, width, board, index1, index2>>

\* The direct-conclusion pass of one round.
DirectPass ==
    /\ pc = "direct"
    /\ LET st == DirectRound(AIState)
       IN  /\ mines' = st.mines
           /\ safes' = st.safes
           /\ knowledge' = st.knowledge
           /\ loop_stop' = st.loop_stop
    /\ index1' = 1
    /\ index2' = 1
    /\ pc' = "subset"
    /\ UNCHANGED <<height, width, board, moves_made, op, arg, ret>>

\* The subset-resolution pass of one round, one step per appended sentence:
\* the loops advance to the next pair that appends, or run out.
SubsetStep ==
    /\ pc = "subset"
    /\ LET r == SubsetScan(AIState, index1, index2)
       IN  /\ mines' = r.st.mines
           /\ safes' = r.st.safes
           /\ knowledge' = r.st.knowledge
           /\ loop_stop' = r.st.loop_stop
           /\ index1' = IF r.done THEN 0 ELSE r.index1
           /\ index2' = IF r.done THEN 0 ELSE r.index2
           /\ pc' = IF r.done THEN "test" ELSE "subset"
    /\ UNCHANGED <<height, width, board, moves_made, op, arg, ret>>

\* "if not loop_stop: break", else the next round starts with
\* loop_stop = False.
LoopTest ==
    /\ pc = "test"
    /\ pc' = IF loop_stop THEN "direct" ELSE "idle"
    /\ loop_stop' = FALSE
    /\ UNCHANGED <<height, width, board, moves_made, mines, safes, knowledge,
                   index1, index2, op, arg, ret>>

make_safe_move ==
    /\ pc = "idle"
    /\ ret' \in SafeMoveResults(safes, moves_made)
    /\ op' = "safe_move"
    /\ arg' = None
    /\ UNCHANGED <<height, width, board, moves_made, mines, safes, knowledge,
                   loop_stop, index1, index2, pc>>

make_random_move ==
    /\ pc = "idle"
    /\ ret' \in RandomMoveResults(height, width, moves_made, mines)
    /\ op' = "random_move"
    /\ arg' = None
    /\ UNCHANGED <<height, width, board, moves_made, mines, safes, knowledge,
                   loop_stop, index1, index2, pc>>

Next ==
    \/ \E cell \in GridCells(MaxCells, MaxCells) : Observe(cell)
    \/ DirectPass
    \/ SubsetStep
    \/ LoopTest
    \/ make_safe_move
    \/ make_random_move

Spec == Init /\ [][Next]_vars

\* The position of a running call.
position == <<pc, index1, index2>>

\* A step of a running call: its position moves.  In Next these are exactly
\* the DirectPass, SubsetStep and LoopTest steps, and one of them is possible
\* whenever a call is running, so weak fairness of CallStep is weak fairness
\* of their disjunction.
CallStep ==
    /\ pc # "idle"
    /\ pc' \in {"idle", "direct", "subset", "test"}
    /\ index1' \in 0..(Len(knowledge) + 1)
    /\ index2' \in 0..(Len(knowledge) + 1)
    /\ position' # position

\* add_knowledge is straight-line, single-threaded code: a call that has
\* started keeps taking its next step.
Fairness == WF_position(CallStep)

LiveSpec == Spec /\ Fairness

(***************************************************************************)
(* A single Sentence on its own: any cell set over MaxSentenceCells cells  *)
(* with any count, consistent or not, held as the only entry of knowledge, *)
(* and the four methods of the class applied to it in any order.           *)
(***************************************************************************)
SentenceCells == GridCells(1, MaxSentenceCells)

SentenceInit ==
    /\ height = 1
    /\ width = MaxSentenceCells
    /\ board = {}
    /\ moves_made = {}
    /\ mines = {}
    /\ safes = {}
    /\ knowledge \in {<<Sentence(cells, count)>> :
                         cells \in SUBSET SentenceCells,
                         count \in (-1)..(MaxSentenceCells + 1)}
    /\ loop_stop = FALSE
    /\ index1 = 0
    /\ index2 = 0
    /\ pc = "idle"
    /\ op = "init"
    /\ arg = None
    /\ ret = None

\* sentence.known_mines()
call_known_mines ==
    /\ ret' = known_mines(knowledge[1])
    /\ op' = "known_mines"
    /\ arg' = None
    /\ UNCHANGED <<height, width, board, moves_made, mines, safes, knowledge,
                   loop_stop, index1, index2, pc>>

\* sentence.known_safes()
call_known_safes ==
    /\ ret' = known_safes(knowledge[1])
    /\ op' = "known_safes"
    /\ arg' = None
    /\ UNCHANGED <<height, width, board, moves_made, mines, safes, knowledge,
                   loop_stop, index1, index2, pc>>

\* sentence.mark_mine(cell)
call_mark_mine(cell) ==
    /\ knowledge' = <<SentenceMarkMine(knowledge[1], cell)>>
    /\ op' = "mark_mine"
    /\ arg' = cell
    /\ ret' = None
    /\ UNCHANGED <<height, width, board, moves_made, mines, safes,
                   loop_stop, index1, index2, pc>>

\* sentence.mark_safe(cell)
call_mark_safe(cell) ==
    /\ knowledge' = <<SentenceMarkSafe(knowledge[1], cell)>>
    /\ op' = "mark_safe"
    /\ arg' = cell
    /\ ret' = None
    /\ UNCHANGED <<height, width, board, moves_made, mines, safes,
                   loop_stop, index1, index2, pc>>

SentenceNext ==
    \/ call_known_mines
    \/ call_known_safes
    \/ \E cell \in SentenceCells : call_mark_mine(cell)
    \/ \E cell \in SentenceCells : call_mark_safe(cell)

SentenceSpec == SentenceInit /\ [][SentenceNext]_vars

(***************************************************************************)
(* Properties                                                              *)
(***************************************************************************)
\* add_knowledge has returned.
Returned == pc = "idle"

\* The cells of the grid that are neither probed nor known mines.
Available == (AllCells \ moves_made) \ mines

\* C1: soundness against the board.  When add_knowledge returns, after any
\* sequence of probes of unprobed non-mine cells with their true counts, no
\* cell of safes is a mine of the board and every cell of mines is one.
C1_Soundness ==
    Returned => /\ \A cell \in safes : ~is_mine(cell)
                /\ \A cell \in mines : is_mine(cell)

\* A call returned having deduced both a mine and an unprobed safe cell.
C1_Witness ==
    /\ Returned
    /\ op = "observe"
    /\ mines # {}
    /\ safes \ moves_made # {}

\* C2: when add_knowledge returns, safes and mines are disjoint.
C2_Disjoint == Returned => safes \cap mines = {}

\* A call returned with both sets populated beyond the probed cells.
C2_Witness ==
    /\ Returned
    /\ Cardinality(mines) >= 2
    /\ Cardinality(safes) >= 2

\* C3: when add_knowledge returns, every probed cell is in safes.
C3_MovedSubsetSafe == Returned => moves_made \subseteq safes

\* Two probes were made and recorded.
C3_Witness ==
    /\ Returned
    /\ Cardinality(moves_made) >= 2

\* C4: when add_knowledge returns, no two entries of knowledge at different
\* positions are equal (same cells and same count), empty entries and
\* entries shrunk in place included.
C4_Dedup ==
    Returned =>
        \A i, j \in DOMAIN knowledge :
            i # j => ~(/\ knowledge[i].cells = knowledge[j].cells
                       /\ knowledge[i].count = knowledge[j].count)

\* C5: when add_knowledge returns, every sentence of knowledge has
\* 0 <= count <= |cells|; an emptied sentence has count 0.
C5_CountRange ==
    Returned =>
        \A i \in DOMAIN knowledge :
            /\ 0 <= knowledge[i].count
            /\ knowledge[i].count <= Cardinality(knowledge[i].cells)

\* A call returned holding an undecided sentence beside an emptied one.
C5_Witness ==
    /\ Returned
    /\ \E i \in DOMAIN knowledge :
           /\ 0 < knowledge[i].count
           /\ knowledge[i].count < Cardinality(knowledge[i].cells)
    /\ \E i \in DOMAIN knowledge : knowledge[i].cells = {}

\* C6: closure under subset resolution.  When add_knowledge returns, for any
\* two sentences A, B at different positions with A.cells a subset of
\* B.cells and a non-empty difference, the sentence
\* {B.cells \ A.cells, B.count - A.count} is in knowledge.
C6_SubsetClosure ==
    Returned =>
        \A i, j \in DOMAIN knowledge :
            (/\ i # j
             /\ knowledge[i].cells \subseteq knowledge[j].cells
             /\ knowledge[j].cells \ knowledge[i].cells # {})
            => InKnowledge(Sentence(knowledge[j].cells \ knowledge[i].cells,
                                    knowledge[j].count - knowledge[i].count),
                           knowledge)

\* A call returned with a non-empty sentence strictly inside another one.
C6_Witness ==
    /\ Returned
    /\ \E i, j \in DOMAIN knowledge :
           /\ knowledge[i].cells # {}
           /\ knowledge[i].cells \subseteq knowledge[j].cells
           /\ knowledge[j].cells \ knowledge[i].cells # {}

\* C7: fixpoint idempotence.  In the state add_knowledge returns in, one more
\* direct-conclusion pass followed by one more subset-resolution pass leaves
\* safes, mines and knowledge (entries and order) as they are.
C7_Idempotent ==
    Returned =>
        LET st == SubsetRound(DirectRound(AIState))
        IN  /\ st.safes = safes
            /\ st.mines = mines
            /\ st.knowledge = knowledge

\* A call returned after subset resolution had added sentences, with
\* undecided sentences left for another round to look at.
C7_Witness ==
    /\ Returned
    /\ Len(knowledge) > Cardinality(moves_made)
    /\ \E i \in DOMAIN knowledge :
           /\ 0 < knowledge[i].count
           /\ knowledge[i].count < Cardinality(knowledge[i].cells)

\* C8: termination.  Every call of add_knowledge reaches a round in which
\* neither pass changes anything, and returns.
C8_Terminates == (pc # "idle") ~> (pc = "idle")

\* A call returned after more than one round: subset resolution appended a
\* sentence, which forces a further round.
C8_Witness ==
    /\ Returned
    /\ op = "observe"
    /\ Len(knowledge) > Cardinality(moves_made) + 1

\* C9: make_random_move returns None exactly when (AllCells \ moves_made)
\* \ mines is empty; otherwise what it can return is exactly that set.
C9_RandomMove ==
    op = "random_move" =>
        /\ (ret = None) <=> (Available = {})
        /\ ret # None => ret \in Available
        /\ Available # {} =>
               RandomMoveResults(height, width, moves_made, mines) = Available

\* C10: make_safe_move returns None exactly when safes \ moves_made is
\* empty, otherwise a cell of safes that is not in moves_made; the call
\* changes none of moves_made, safes, mines, knowledge.
C10_SafeMove ==
    [][op' = "safe_move" =>
          /\ (ret' = None) <=> (safes \ moves_made = {})
          /\ ret' # None => (ret' \in safes /\ ret' \notin moves_made)
          /\ UNCHANGED <<moves_made, safes, mines, knowledge>>]_vars

\* make_safe_move returned a cell while other safe cells were already probed.
C10_Witness ==
    /\ op = "safe_move"
    /\ ret # None
    /\ moves_made # {}

\* C11: for every sentence S, the empty one included, known_safes() returns
\* S.cells if S.count = 0 and the empty set otherwise, known_mines() returns
\* S.cells if S.count = |S.cells| and the empty set otherwise, and neither
\* call changes S.
C11_DirectConclusions ==
    [][/\ op' = "known_safes" =>
              /\ ret' = IF knowledge[1].count = 0
                          THEN knowledge[1].cells ELSE {}
              /\ knowledge' = knowledge
       /\ op' = "known_mines" =>
              /\ ret' = IF knowledge[1].count = Cardinality(knowledge[1].cells)
                          THEN knowledge[1].cells ELSE {}
              /\ knowledge' = knowledge]_vars

\* known_mines() returned the cells of a non-empty sentence whose count
\* equals its number of cells.
C11_Witness ==
    /\ op = "known_mines"
    /\ ret # {}
    /\ ret = knowledge[1].cells
    /\ Cardinality(knowledge[1].cells) < MaxSentenceCells

\* C12: for every sentence S and cell c, mark_mine(c) applied again with the
\* same cell leaves S as the first application left it, and so does
\* mark_safe(c); mark_safe never changes count; either method on a cell that
\* is not in S.cells leaves S unchanged.
C12_MarkIdempotent ==
    [][/\ (op' = "mark_mine" /\ op = "mark_mine" /\ arg' = arg)
              => knowledge' = knowledge
       /\ (op' = "mark_safe" /\ op = "mark_safe" /\ arg' = arg)
              => knowledge' = knowledge
       /\ op' = "mark_mine"
              => SentenceMarkMine(knowledge'[1], arg') = knowledge'[1]
       /\ op' = "mark_safe"
              => /\ SentenceMarkSafe(knowledge'[1], arg') = knowledge'[1]
                 /\ knowledge'[1].count = knowledge[1].count
       /\ (op' \in {"mark_mine", "mark_safe"} /\ arg' \notin knowledge[1].cells)
              => knowledge' = knowledge]_vars

\* mark_mine(c) has returned with c absent from the sentence, which still
\* holds other cells.
C12_Witness ==
    /\ op = "mark_mine"
    /\ arg \notin knowledge[1].cells
    /\ knowledge[1].cells # {}
    /\ knowledge[1].count = 0

\* A step that is the first part of add_knowledge(arg', count): the cell is
\* recorded and the sentence of the probe is built and appended.
ObserveStep == pc = "idle" /\ pc' = "direct"

\* The cells of the grid that touch cell, diagonals included.
Adjacent(cell) ==
    {c \in AllCells : /\ c # cell
                      /\ c[1] - cell[1] \in (-1)..1
                      /\ c[2] - cell[2] \in (-1)..1}

\* C13: the sentence add_knowledge(cell, n) builds for the probe has as
\* cells the in-bounds 8-neighbours of cell that are in none of moves_made,
\* safes, mines (cell itself already counted as moved and safe), and as
\* count n minus the number of in-bounds neighbours that are in mines;
\* neighbours known safe or probed do not change the count.
C13_ProbeSentence ==
    [][ObserveStep =>
          LET cell == arg'
              new_sentence == knowledge'[Len(knowledge')]
          IN  /\ cell \in moves_made' /\ cell \in safes'
              /\ Len(knowledge') = Len(knowledge) + 1
              /\ new_sentence.cells =
                     {c \in Adjacent(cell) : /\ c \notin moves_made'
                                             /\ c \notin safes'
                                             /\ c \notin mines'}
              /\ new_sentence.count =
                     nearby_mines(cell)
                       - Cardinality(Adjacent(cell) \cap mines')]_vars

\* A probe has just been recorded whose neighbours include a known mine and
\* a known safe cell that was never probed.
C13_Witness ==
    /\ pc = "direct"
    /\ op = "observe"
    /\ loop_stop = FALSE
    /\ Len(knowledge) = Cardinality(moves_made)
    /\ Adjacent(arg) \cap mines # {}
    /\ Adjacent(arg) \cap (safes \ moves_made) # {}

\* C14: add_knowledge does not append the sentence built for the probe when
\* an equal sentence (same cells and count) is already in knowledge; the
\* length of knowledge is then not increased by that append.
C14_ProbeDuplicateCheck ==
    [][ObserveStep =>
          LET new_sentence ==
                  Sentence(cells_set(arg', moves_made', safes', mines'),
                           adjusted_count(arg', nearby_mines(arg'),
                                          moves_made', safes', mines'))
              held == SubSeq(knowledge', 1, Len(knowledge))
          IN  InKnowledge(new_sentence, held)
                  => Len(knowledge') = Len(knowledge)]_vars

\* C15: when add_knowledge returns, no sentence of knowledge has a non-empty
\* cell set together with count = 0 or count = |cells|: such cells have been
\* moved to safes or mines.  In particular the in-bounds neighbours of every
\* cell probed with count 0 are in safes.
C15_DirectComplete ==
    Returned =>
        /\ \A i \in DOMAIN knowledge :
               knowledge[i].cells # {} =>
                   /\ knowledge[i].count # 0
                   /\ knowledge[i].count # Cardinality(knowledge[i].cells)
        /\ \A cell \in moves_made :
               nearby_mines(cell) = 0 => Adjacent(cell) \subseteq safes

\* A call returned after both kinds of conclusion were drawn: a probe with
\* count 0 made its neighbours safe, a mine was found, and the sentence of
\* the last probe was emptied.
C15_Witness ==
    /\ Returned
    /\ op = "observe"
    /\ mines # {}
    /\ \E cell \in moves_made :
           nearby_mines(cell) = 0 /\ Adjacent(cell) \ moves_made # {}
    /\ knowledge[Len(knowledge)].cells = {}

\* A step of the subset-resolution pass that appends.
AppendStep == pc = "subset" /\ Len(knowledge') > Len(knowledge)

\* C16: every sentence the subset-resolution pass appends has a non-empty
\* cell set, equals no sentence held at the moment of the append, and is
\* {B.cells \ A.cells, B.count - A.count} for the sentences A, B at the two
\* different loop positions, A.cells being a non-empty subset of B.cells; a
\* sentence with an empty cell set never causes an append.
C16_SubsetAppends ==
    [][AppendStep =>
          LET A == knowledge[index1']
              B == knowledge[index2' - 1]
              appended == knowledge'[Len(knowledge')]
          IN  /\ Len(knowledge') = Len(knowledge) + 1
              /\ SubSeq(knowledge', 1, Len(knowledge)) = knowledge
              /\ appended.cells # {}
              /\ ~InKnowledge(appended, knowledge)
              /\ index1' # index2' - 1
              /\ A.cells # {}
              /\ A.cells \subseteq B.cells
              /\ appended = Sentence(B.cells \ A.cells,
                                     B.count - A.count)]_vars

\* The pass has just appended a sentence while an emptied sentence was held.
C16_Witness ==
    /\ pc = "subset"
    /\ index2 >= 2
    /\ loop_stop
    /\ Len(knowledge) > Cardinality(moves_made)
    /\ \E i \in DOMAIN knowledge : knowledge[i].cells = {}

\* C17: every sentence held is true of the board, at every step: its count
\* is the number of real mines among its cells, for the sentences built from
\* a probe, for those derived by subset resolution, and after cells of it
\* became known mines or known safes.
C17_SentencesTrue ==
    \A i \in DOMAIN knowledge :
        knowledge[i].count =
            Cardinality({c \in knowledge[i].cells : is_mine(c)})

\* A derived sentence is held and an undecided sentence has lost a cell to
\* mines.
C17_Witness ==
    /\ Returned
    /\ Len(knowledge) > Cardinality(moves_made)
    /\ mines # {}
    /\ \E i \in DOMAIN knowledge :
           /\ knowledge[i].count > 0
           /\ \E cell \in moves_made :
                  /\ knowledge[i].cells \subseteq Adjacent(cell)
                  /\ Adjacent(cell) \cap mines # {}

\* C18: when add_knowledge returns, no sentence of knowledge contains a cell
\* that is in safes or in mines (or probed): every cell a sentence still
\* mentions is unknown.
C18_FanOutComplete ==
    Returned =>
        \A i \in DOMAIN knowledge :
            knowledge[i].cells \cap (safes \cup mines \cup moves_made) = {}

\* A call returned with a known mine and a sentence that still mentions
\* cells after several probes were fanned out.
C18_Witness ==
    /\ Returned
    /\ mines # {}
    /\ Cardinality(moves_made) >= 2
    /\ \E i \in DOMAIN knowledge : knowledge[i].cells # {}

\* C19: across every step, moves_made, safes and mines never lose a cell,
\* knowledge never loses or reorders an entry (its length never decreases),
\* and each entry's cell set only shrinks while its count never increases.
C19_Monotonic ==
    [][/\ moves_made \subseteq moves_made'
       /\ safes \subseteq safes'
       /\ mines \subseteq mines'
       /\ Len(knowledge) <= Len(knowledge')
       /\ \A i \in DOMAIN knowledge :
              /\ knowledge'[i].cells \subseteq knowledge[i].cells
              /\ knowledge'[i].count <= knowledge[i].count]_vars

\* A call returned after sentences were appended and a sentence was shrunk
\* by a mine: its count went down.
C19_Witness ==
    /\ Returned
    /\ Len(knowledge) >= 2
    /\ mines # {}
    /\ \E i \in DOMAIN knowledge : knowledge[i].cells = {}
    /\ \E cell \in moves_made :
           nearby_mines(cell) > 0 /\ Adjacent(cell) \cap mines # {}

====
